---------------------------- MODULE Spec2Model ----------------------------
(***************************************************************************)
(* Model of cdgm/data_processors/ctgan/transformers/base.py: the           *)
(* BaseTransformer fit / transform / reverse_transform lifecycle, the      *)
(* per-phase random-state swap of set_random_states / random_state, and    *)
(* the column bookkeeping of fit.                                           *)
(*                                                                         *)
(* A generator state is the pair <<seed, pos>>: the seed the stream was    *)
(* started from and the number of draws made since.  numpy.RandomState     *)
(* objects and torch.Generator objects are references: a reference either  *)
(* names a shared object (a class-level INITIAL_*_STATE, torch's default   *)
(* generator) whose state lives in a variable, or is a private object      *)
(* carrying its own state.                                                  *)
(***************************************************************************)
EXTENDS Integers, Sequences, FiniteSets, TLC

\* ------------------------------------------------------------------ bounds
\* Largest number of columns a table has besides the column "a".
MaxExtra == 2
\* Largest number of operations in one behaviour.
MaxOps == 4
\* Largest number of names in a list handed to load_models.
MaxNames == 3

\* --------------------------------------------------------------- constants
FIT_SEED == 21
TRANSFORM_SEED == 80
REVERSE_TRANSFORM_SEED == 130
REVERSE_TRANSFORM_SEED_TORCH == 131

Inst == {"t1", "t2"}
Method == {"fit", "transform", "reverse_transform"}
\* method_name arguments tried on set_random_state: the three phases and a
\* name that is none of them.
MethodNames == Method \cup {"fit_transform"}

\* Seeds the process-global numpy generator may have at interpreter start,
\* seeds ambient code reseeds the global generators with, and seeds of the
\* states a caller hands to set_random_state.
AmbientSeeds == {0}
ReseedSeeds == {5}
UserSeeds == {7}

\* ------------------------------------------------------- generator states
NoState == <<-1, 0>>
Seeded(seed) == <<seed, 0>>
Draw(state, n) == <<state[1], state[2] + n>>
InitialSeed(state) == state[1]

NpSeed(m) ==
  CASE m = "fit" -> FIT_SEED
    [] m = "transform" -> TRANSFORM_SEED
    [] m = "reverse_transform" -> REVERSE_TRANSFORM_SEED

\* numpy.random.RandomState references.  cls names the class-level object
\* (INITIAL_FIT_STATE, ...) the reference points to, or is "" for a private
\* object whose state is st.
NpClassRef(m) == [cls |-> m, st |-> NoState]
NpObject(state) == [cls |-> "", st |-> state]
INITIAL_FIT_STATE == NpClassRef("fit")
INITIAL_TRANSFORM_STATE == NpClassRef("transform")
INITIAL_REVERSE_TRANSFORM_STATE == NpClassRef("reverse_transform")

\* torch.Generator references.  torch.manual_seed(seed) seeds torch's default
\* generator and returns that very object, so the three class-level torch
\* states are all the default generator (left seeded with 131).
DefaultGenerator == [dflt |-> TRUE, st |-> NoState]
TorchObject(state) == [dflt |-> FALSE, st |-> state]
INITIAL_FIT_STATE_TORCH == DefaultGenerator
INITIAL_TRANSFORM_STATE_TORCH == DefaultGenerator
INITIAL_REVERSE_TRANSFORM_STATE_TORCH == DefaultGenerator

None == <<>>
Some(x) == <<x>>

VARIABLES
  np_global,            \* state of numpy's global generator
  torch_global,         \* state of torch's default generator
  initial_states,       \* state of the class-level INITIAL_*_STATE objects
  random_states,        \* per instance: None or the dict method -> numpy ref
  random_states_torch,  \* per instance: None (unset) or dict method -> torch ref
  columns,              \* per instance: None or the list of input columns
  column_prefix,        \* per instance: None or the prefix (a string)
  output_columns,       \* per instance: None or the list of output names
  output_properties,    \* per instance: the ordered dict of output properties
  stream_np,            \* history: where each phase's numpy stream stands
  last,                 \* history: the last operation and its outcome
  ops,                  \* number of operations counted against MaxOps
  models,               \* the registry of mlc.models.samples: (name, class) pairs
  loaded                \* history: the last load_models / load_model call

vars == <<np_global, torch_global, initial_states, random_states,
          random_states_torch, columns, column_prefix, output_columns,
          output_properties, stream_np, last, ops, models, loaded>>

rand_vars == <<np_global, torch_global, initial_states, random_states,
               random_states_torch, stream_np>>
col_vars == <<columns, column_prefix, output_columns>>
model_vars == <<models, loaded>>

\* ---------------------------------------------------------------- strings
\* A string is the sequence of its characters; a column name is a string.
ToSet(seq) == {seq[x] : x \in DOMAIN seq}

\* '#'.join(columns)
RECURSIVE Join(_)
Join(cols) ==
  IF cols = <<>> THEN <<>>
  ELSE IF Len(cols) = 1 THEN cols[1]
  ELSE cols[1] \o <<"#">> \o Join(Tail(cols))

\* ------------------------------------------------------ output properties
\* output_properties is an ordered dict: a sequence of entries, each with its
\* key output_column (None or a name) and the set of the property names its
\* value holds.
BaseOutputProperties ==
  << [output_column |-> None, props |-> {"sdtype", "next_transformer"}] >>
\* A transformer subclass with one named output that has an sdtype and one
\* that has none.
NamedOutputProperties ==
  << [output_column |-> Some(<<"x">>), props |-> {"sdtype", "next_transformer"}],
     [output_column |-> Some(<<"y">>), props |-> {"next_transformer"}] >>

RECURSIVE get_output_to_property(_, _, _)
get_output_to_property(prefix, properties, property_) ==
  IF properties = <<>> THEN <<>>
  ELSE LET head == properties[1]
           rest == get_output_to_property(prefix, Tail(properties), property_)
       IN IF property_ \notin head.props THEN rest
          ELSE IF head.output_column = None THEN <<prefix>> \o rest
          ELSE <<prefix \o <<".">> \o head.output_column[1]>> \o rest

get_output_columns(prefix, properties) ==
  get_output_to_property(prefix, properties, "sdtype")

\* ------------------------------------------------------------------- fit
\* The column argument of fit: a str, a list or a tuple of names.  names
\* holds the single name of a str, or the elements of a list or tuple.
StrColumn(name) == [kind |-> "str", names |-> <<name>>]
ListColumn(names) == [kind |-> "list", names |-> names]
TupleColumn(names) == [kind |-> "tuple", names |-> names]
NoColumn == [kind |-> "", names |-> <<>>]

\* data is the set of the table's column labels, all of them strings, so a
\* tuple is never itself a label (columns not in data).
store_columns(column, data) ==
  LET cols == CASE column.kind = "tuple" -> column.names
                [] column.kind = "list" -> column.names
                [] OTHER -> <<column.names[1]>>
      missing == ToSet(cols) \ data
  IN [raised |-> missing # {}, columns |-> cols]

\* build_loop without the loop: the first prefix is kept whatever it repeats.
build_loop_once(prefix, cols, data, properties, fuel) ==
  [returned |-> TRUE, column_prefix |-> prefix,
   output_columns |-> get_output_columns(prefix, properties)]

\* build_loop without the exception for the input columns: an output column
\* that is an input column counts as repeated too.
RECURSIVE build_loop_all(_, _, _, _, _)
build_loop_all(prefix, cols, data, properties, fuel) ==
  LET outs == get_output_columns(prefix, properties)
      repeated_columns == ToSet(outs) \cap data
  IN IF repeated_columns = {}
       THEN [returned |-> TRUE, column_prefix |-> prefix, output_columns |-> outs]
     ELSE IF fuel = 0
       THEN [returned |-> FALSE, column_prefix |-> prefix, output_columns |-> outs]
     ELSE build_loop_all(prefix \o <<"#">>, cols, data, properties, fuel - 1)

\* The while loop of _build_output_columns, entered with the prefix built so
\* far; fuel is the number of further '#' it may still append before the
\* loop counts as not returning.
RECURSIVE build_loop(_, _, _, _, _)
build_loop(prefix, cols, data, properties, fuel) ==
  LET outs == get_output_columns(prefix, properties)
      output_cols == ToSet(outs) \ ToSet(cols)
      repeated_columns == output_cols \cap data
  IN IF repeated_columns = {}
       THEN [returned |-> TRUE, column_prefix |-> prefix, output_columns |-> outs]
     ELSE IF fuel = 0
       THEN [returned |-> FALSE, column_prefix |-> prefix, output_columns |-> outs]
     ELSE build_loop(prefix \o <<"#">>, cols, data, properties, fuel - 1)

build_output_columns(cols, data, properties) ==
  build_loop(Join(cols), cols, data, properties, Cardinality(data))

\* fit with _store_columns assigning self.columns before it looks for missing
\* columns.
fit_assign_first(i, data, column, fit_raises) ==
  LET stored == store_columns(column, data)
      built == build_output_columns(stored.columns, data, output_properties[i])
      kept == [columns |-> Some(stored.columns), column_prefix |-> column_prefix[i],
               output_columns |-> output_columns[i]]
  IN IF stored.raised
       THEN [outcome |-> "KeyError", called_fit |-> FALSE, cols |-> kept]
     ELSE IF fit_raises
       THEN [outcome |-> "Error", called_fit |-> TRUE, cols |-> kept]
     ELSE [outcome |-> IF built.returned THEN "ok" ELSE "loops", called_fit |-> TRUE,
           cols |-> [columns |-> Some(stored.columns),
                     column_prefix |-> Some(built.column_prefix),
                     output_columns |-> Some(built.output_columns)]]

\* The body of fit on instance i: the new columns, column_prefix and
\* output_columns, the outcome, and whether _fit was called.  fit_raises says
\* whether the subclass's _fit raises on these data.  The outcome "loops"
\* stands for a call whose while loop does not return.
fit(i, data, column, fit_raises) ==
  LET stored == store_columns(column, data)
      built == build_output_columns(stored.columns, data, output_properties[i])
      kept == [columns |-> columns[i], column_prefix |-> column_prefix[i],
               output_columns |-> output_columns[i]]
  IN IF stored.raised
       THEN [outcome |-> "KeyError", called_fit |-> FALSE, cols |-> kept]
     ELSE IF fit_raises
       THEN [outcome |-> "Error", called_fit |-> TRUE,
             cols |-> [kept EXCEPT !.columns = Some(stored.columns)]]
     ELSE IF ~built.returned
       THEN [outcome |-> "loops", called_fit |-> TRUE,
             cols |-> [columns |-> Some(stored.columns),
                       column_prefix |-> Some(built.column_prefix),
                       output_columns |-> Some(built.output_columns)]]
     ELSE [outcome |-> "ok", called_fit |-> TRUE,
           cols |-> [columns |-> Some(stored.columns),
                     column_prefix |-> Some(built.column_prefix),
                     output_columns |-> Some(built.output_columns)]]

\* --------------------------------------------------------- random states
\* random_np_state.get_state() and random_torch_state.get_state()
NpGetState(ref) == IF ref.cls = "" THEN ref.st ELSE initial_states[ref.cls]
TorchGetState(gen) == IF gen.dflt THEN torch_global ELSE gen.st

\* set_random_state on an instance whose random_states / random_states_torch
\* are rs / rst (None or Some(dict)): the outcome and the new attributes.
\* `method_name not in None` is a TypeError.
set_random_state(rs, rst, state, state_torch, method_name) ==
  IF rs = None
    THEN [outcome |-> "TypeError", random_states |-> rs, random_states_torch |-> rst]
  ELSE IF method_name \notin DOMAIN rs[1]
    THEN [outcome |-> "ValueError", random_states |-> rs, random_states_torch |-> rst]
  ELSE [outcome |-> "ok",
        random_states |-> Some([rs[1] EXCEPT ![method_name] = state]),
        random_states_torch |-> Some([rst[1] EXCEPT ![method_name] = state_torch])]

reset_randomization(rs, rst) ==
  LET a == set_random_state(rs, rst, INITIAL_FIT_STATE, INITIAL_FIT_STATE_TORCH, "fit")
      b == set_random_state(a.random_states, a.random_states_torch,
                            INITIAL_TRANSFORM_STATE, INITIAL_TRANSFORM_STATE_TORCH,
                            "transform")
      c == set_random_state(b.random_states, b.random_states_torch,
                            INITIAL_REVERSE_TRANSFORM_STATE,
                            INITIAL_REVERSE_TRANSFORM_STATE_TORCH, "reverse_transform")
  IN IF a.outcome # "ok" THEN a ELSE IF b.outcome # "ok" THEN b ELSE c

\* set_random_states without its last two lines: the global generators are
\* left where the body (and the reseeding of line 36) left them.
set_random_states_no_restore(rs, rst, method_name, n, k) ==
  LET np_left == Draw(NpGetState(rs[1][method_name]), n)
      torch_left == Draw(TorchGetState(rst[1][method_name]), k)
      stored == set_random_state(rs, rst, NpObject(np_left), DefaultGenerator,
                                 method_name)
  IN [swapped |-> TRUE,
      np_start |-> NpGetState(rs[1][method_name]),
      torch_start |-> TorchGetState(rst[1][method_name]),
      np_end |-> np_left, torch_end |-> torch_left,
      random_states |-> stored.random_states,
      random_states_torch |-> stored.random_states_torch,
      initial_states |-> initial_states,
      np_global |-> np_left,
      torch_global |-> Seeded(InitialSeed(torch_left))]

\* set_random_states reading the state to store only after the global
\* generator was restored: it stores the ambient state.
set_random_states_store_late(rs, rst, method_name, n, k) ==
  LET np_left == Draw(NpGetState(rs[1][method_name]), n)
      torch_left == Draw(TorchGetState(rst[1][method_name]), k)
      stored == set_random_state(rs, rst, NpObject(np_global), DefaultGenerator,
                                 method_name)
  IN [swapped |-> TRUE,
      np_start |-> NpGetState(rs[1][method_name]),
      torch_start |-> TorchGetState(rst[1][method_name]),
      np_end |-> np_left, torch_end |-> torch_left,
      random_states |-> stored.random_states,
      random_states_torch |-> stored.random_states_torch,
      initial_states |-> initial_states,
      np_global |-> np_global,
      torch_global |-> torch_global]

\* set_random_states advancing the phase's RandomState object in place
\* (random_np_state.set_state(np.random.get_state())) instead of storing a
\* new object: a class-level initial state is advanced with it.
set_random_states_in_place(rs, rst, method_name, n, k) ==
  LET random_np_state == rs[1][method_name]
      np_left == Draw(NpGetState(random_np_state), n)
      torch_left == Draw(TorchGetState(rst[1][method_name]), k)
      current_np_state == IF random_np_state.cls = "" THEN NpObject(np_left)
                          ELSE random_np_state
      stored == set_random_state(rs, rst, current_np_state, DefaultGenerator,
                                 method_name)
  IN [swapped |-> TRUE,
      np_start |-> NpGetState(random_np_state),
      torch_start |-> TorchGetState(rst[1][method_name]),
      np_end |-> np_left, torch_end |-> torch_left,
      random_states |-> stored.random_states,
      random_states_torch |-> stored.random_states_torch,
      initial_states |-> IF random_np_state.cls = "" THEN initial_states
                         ELSE [initial_states EXCEPT ![random_np_state.cls] = np_left],
      np_global |-> np_global,
      torch_global |-> torch_global]

\* The context manager set_random_states around a body that makes n draws on
\* numpy's global generator and k draws on torch's default generator, with
\* the instance's set_random_state as set_model_random_state.  The finally
\* block runs whether the body returns or raises.
set_random_states(rs, rst, method_name, n, k) ==
  LET original_np_state == np_global
      random_np_state == rs[1][method_name]
      np_entered == NpGetState(random_np_state)
      original_torch_state == torch_global
      random_torch_state == rst[1][method_name]
      torch_entered == TorchGetState(random_torch_state)
      \* the body
      np_left == Draw(np_entered, n)
      torch_left == Draw(torch_entered, k)
      \* finally
      current_np_state == NpObject(np_left)
      \* torch.manual_seed(torch.initial_seed()) reseeds the default generator
      \* with its own seed and returns the default generator itself, so the
      \* set_rng_state that follows sets it to its own state.
      torch_reseeded == Seeded(InitialSeed(torch_left))
      current_torch_state == DefaultGenerator
      stored == set_random_state(rs, rst, current_np_state, current_torch_state,
                                 method_name)
  IN [swapped |-> TRUE,
      np_start |-> np_entered, torch_start |-> torch_entered,
      np_end |-> np_left, torch_end |-> torch_left,
      random_states |-> stored.random_states,
      random_states_torch |-> stored.random_states_torch,
      initial_states |-> initial_states,
      np_global |-> original_np_state,
      torch_global |-> original_torch_state]

\* The wrapper of the decorator random_state around a body with n and k draws.
random_state(i, method_name, n, k) ==
  IF random_states[i] = None
    THEN [swapped |-> FALSE,
          np_start |-> np_global, torch_start |-> torch_global,
          np_end |-> Draw(np_global, n), torch_end |-> Draw(torch_global, k),
          random_states |-> random_states[i],
          random_states_torch |-> random_states_torch[i],
          initial_states |-> initial_states,
          np_global |-> Draw(np_global, n),
          torch_global |-> Draw(torch_global, k)]
  ELSE set_random_states(random_states[i], random_states_torch[i], method_name, n, k)

\* ---------------------------------------------------------------- actions
\* Numbers of draws the body of one call makes on a generator.
Draws == {0, 1}

\* The record of an operation: np and torch are the states the body started
\* from (or the states handed to set_random_state), np_end and torch_end the
\* states the body left its streams in.
Last(op, i, m, outcome, swapped, np, torch, np_end, torch_end, data, column,
     called_fit) ==
  [op |-> op, inst |-> i, method |-> m, outcome |-> outcome, swapped |-> swapped,
   np |-> np, torch |-> torch, np_end |-> np_end, torch_end |-> torch_end,
   data |-> data, column |-> column, called_fit |-> called_fit]

\* Every operation of Spec counts against MaxOps.
Count == ops < MaxOps /\ ops' = ops + 1 /\ UNCHANGED model_vars

\* One call of the wrapped method m on instance i.
Phase(i, m, n, k, outcome, data, column, called_fit) ==
  LET r == random_state(i, m, n, k) IN
  /\ np_global' = r.np_global
  /\ torch_global' = r.torch_global
  /\ initial_states' = r.initial_states
  /\ random_states' = [random_states EXCEPT ![i] = r.random_states]
  /\ random_states_torch' = [random_states_torch EXCEPT ![i] = r.random_states_torch]
  /\ stream_np' = IF r.swapped
                    THEN [stream_np EXCEPT ![i][m] = Some(r.np_end)]
                    ELSE stream_np
  /\ last' = Last(m, i, m, outcome, r.swapped, r.np_start, r.torch_start,
                  r.np_end, r.torch_end, data, column, called_fit)
  /\ UNCHANGED output_properties

FitCall(i, data, column, n, k, fit_raises) ==
  LET f == fit(i, data, column, fit_raises) IN
  /\ f.called_fit \/ (n = 0 /\ k = 0)
  /\ Phase(i, "fit", n, k, f.outcome, data, column, f.called_fit)
  /\ columns' = [columns EXCEPT ![i] = f.cols.columns]
  /\ column_prefix' = [column_prefix EXCEPT ![i] = f.cols.column_prefix]
  /\ output_columns' = [output_columns EXCEPT ![i] = f.cols.output_columns]

Fit(i, data, column, n, k, fit_raises) ==
  /\ Count
  /\ FitCall(i, data, column, n, k, fit_raises)

Transform(i, n, k, raises) ==
  /\ Count
  /\ Phase(i, "transform", n, k, IF raises THEN "Error" ELSE "ok", {}, NoColumn, FALSE)
  /\ UNCHANGED col_vars

ReverseTransform(i, n, k, raises) ==
  /\ Count
  /\ Phase(i, "reverse_transform", n, k, IF raises THEN "Error" ELSE "ok", {},
           NoColumn, FALSE)
  /\ UNCHANGED col_vars

\* The instance gets its per-phase states assigned: the dicts that __init__
\* no longer builds ("adding manual states").
AssignRandomStates(i) ==
  /\ Count
  /\ random_states[i] = None
  /\ random_states' = [random_states EXCEPT ![i] =
       Some([fit |-> INITIAL_FIT_STATE, transform |-> INITIAL_TRANSFORM_STATE,
             reverse_transform |-> INITIAL_REVERSE_TRANSFORM_STATE])]
  /\ random_states_torch' = [random_states_torch EXCEPT ![i] =
       Some([fit |-> INITIAL_FIT_STATE_TORCH,
             transform |-> INITIAL_TRANSFORM_STATE_TORCH,
             reverse_transform |-> INITIAL_REVERSE_TRANSFORM_STATE_TORCH])]
  /\ stream_np' = [stream_np EXCEPT ![i] = [m \in Method |-> Some(Seeded(NpSeed(m)))]]
  /\ last' = Last("assign", i, "", "ok", FALSE, NoState, NoState,
                  NoState, NoState, {}, NoColumn, FALSE)
  /\ UNCHANGED <<np_global, torch_global, initial_states, col_vars, output_properties>>

ResetRandomization(i) ==
  LET r == reset_randomization(random_states[i], random_states_torch[i]) IN
  /\ Count
  /\ random_states' = [random_states EXCEPT ![i] = r.random_states]
  /\ random_states_torch' = [random_states_torch EXCEPT ![i] = r.random_states_torch]
  /\ stream_np' = IF r.outcome = "ok"
                    THEN [stream_np EXCEPT ![i] =
                            [m \in Method |-> Some(Seeded(NpSeed(m)))]]
                    ELSE stream_np
  /\ last' = Last("reset_randomization", i, "", r.outcome, FALSE, NoState, NoState,
                  NoState, NoState, {}, NoColumn, FALSE)
  /\ UNCHANGED <<np_global, torch_global, initial_states, col_vars, output_properties>>

\* A caller's set_random_state with a fresh RandomState and a fresh
\* torch.Generator, both seeded with seed.
SetRandomState(i, seed, method_name) ==
  LET state == NpObject(Seeded(seed))
      state_torch == TorchObject(Seeded(seed))
      r == set_random_state(random_states[i], random_states_torch[i], state,
                            state_torch, method_name)
  IN
  /\ Count
  /\ random_states' = [random_states EXCEPT ![i] = r.random_states]
  /\ random_states_torch' = [random_states_torch EXCEPT ![i] = r.random_states_torch]
  /\ stream_np' = IF r.outcome = "ok"
                    THEN [stream_np EXCEPT ![i][method_name] = None]
                    ELSE stream_np
  /\ last' = Last("set_random_state", i, method_name, r.outcome, FALSE,
                  Seeded(seed), Seeded(seed), NoState, NoState, {}, NoColumn, FALSE)
  /\ UNCHANGED <<np_global, torch_global, initial_states, col_vars, output_properties>>

\* Ambient code using the process-global generators between the calls.
AmbientLast == Last("ambient", "", "", "ok", FALSE, NoState, NoState,
                  NoState, NoState, {}, NoColumn, FALSE)

NpRandomSeed(seed) ==
  /\ Count
  /\ np_global' = Seeded(seed)
  /\ last' = AmbientLast
  /\ UNCHANGED <<torch_global, initial_states, random_states, random_states_torch,
                 stream_np, col_vars, output_properties>>

NpRandomDraw ==
  /\ Count
  /\ np_global' = Draw(np_global, 1)
  /\ last' = AmbientLast
  /\ UNCHANGED <<torch_global, initial_states, random_states, random_states_torch,
                 stream_np, col_vars, output_properties>>

TorchManualSeed(seed) ==
  /\ Count
  /\ torch_global' = Seeded(seed)
  /\ last' = AmbientLast
  /\ UNCHANGED <<np_global, initial_states, random_states, random_states_torch,
                 stream_np, col_vars, output_properties>>

TorchDraw ==
  /\ Count
  /\ torch_global' = Draw(torch_global, 1)
  /\ last' = AmbientLast
  /\ UNCHANGED <<np_global, initial_states, random_states, random_states_torch,
                 stream_np, col_vars, output_properties>>

\* ---------------------------------------------------------- specifications
InitRandom ==
  /\ np_global \in {Seeded(s) : s \in AmbientSeeds}
  /\ torch_global = Seeded(REVERSE_TRANSFORM_SEED_TORCH)
  /\ initial_states = [m \in Method |-> Seeded(NpSeed(m))]
  /\ random_states = [i \in Inst |-> None]
  /\ random_states_torch = [i \in Inst |-> None]
  /\ stream_np = [i \in Inst |-> [m \in Method |-> None]]
  /\ columns = [i \in Inst |-> None]
  /\ column_prefix = [i \in Inst |-> None]
  /\ output_columns = [i \in Inst |-> None]
  /\ last = Last("init", "", "", "ok", FALSE, NoState, NoState,
                  NoState, NoState, {}, NoColumn, FALSE)
  /\ ops = 0

\* The registry entry of mlc/models/tabsurvey/mlp_rln.py and entries of the
\* same shape for the other modules of the tabsurvey package.
TORCHRLN == <<"torchrln", "TORCHRLN">>
DEEPFM == <<"deepfm", "DeepFM">>
VIME == <<"vime", "VIME">>
NotLoaded == [op |-> "", model_names |-> <<>>, outcome |-> "", models_out |-> <<>>]

InitModels ==
  /\ models = <<TORCHRLN>>
  /\ loaded = NotLoaded

\* Instances of BaseTransformer itself.
Init ==
  /\ InitRandom
  /\ InitModels
  /\ output_properties = [i \in Inst |-> BaseOutputProperties]

\* The tables and column arguments fit is called with under Spec.
A == <<"a">>
B == <<"b">>
X == <<"x">>
SmallTables == {{A}}
SmallColumns == {StrColumn(A), StrColumn(B)}

Next ==
  \/ \E i \in Inst : AssignRandomStates(i)
  \/ \E i \in Inst : ResetRandomization(i)
  \/ \E i \in Inst, seed \in UserSeeds, method_name \in MethodNames :
       SetRandomState(i, seed, method_name)
  \/ \E i \in Inst, data \in SmallTables, column \in SmallColumns, n, k \in Draws :
       Fit(i, data, column, n, k, FALSE)
  \/ \E i \in Inst, n, k \in Draws, raises \in BOOLEAN : Transform(i, n, k, raises)
  \/ \E i \in Inst, n, k \in Draws, raises \in BOOLEAN : ReverseTransform(i, n, k, raises)
  \/ \E seed \in ReseedSeeds : NpRandomSeed(seed)
  \/ NpRandomDraw
  \/ \E seed \in ReseedSeeds : TorchManualSeed(seed)
  \/ TorchDraw

Spec == Init /\ [][Next]_vars

\* Under SpecCols one instance is fitted again and again, with no bound on
\* the number of calls; it is a BaseTransformer or a subclass with named
\* outputs.
FitInst == {"t1"}

InitCols ==
  /\ InitRandom
  /\ InitModels
  /\ output_properties \in
       {[i \in Inst |-> IF i \in FitInst THEN p ELSE BaseOutputProperties] :
          p \in {BaseOutputProperties, NamedOutputProperties}}

\* The tables fit is called with under SpecCols: the column "a" and up to
\* MaxExtra further columns, among them names that fit derives.
ExtraColumns ==
  { B, A \o <<"#">> \o B, A \o <<"#">> \o B \o <<"#">>,
    A \o <<".">> \o X, A \o <<"#", ".">> \o X }
Tables == { {A} \cup S : S \in {T \in SUBSET ExtraColumns : Cardinality(T) <= MaxExtra} }
Columns == { StrColumn(A), ListColumn(<<A, B>>), TupleColumn(<<A, B>>) }

NextCols ==
  \E i \in FitInst, data \in Tables, column \in Columns, fit_raises \in BOOLEAN :
     FitCall(i, data, column, 0, 0, fit_raises) /\ UNCHANGED <<ops, model_vars>>

SpecCols == InitCols /\ [][NextCols]_vars

\* ------------------------------------------------------------ load_models
\* The model_names argument: a str or a list of names.
StrNames(name) == [kind |-> "str", names |-> <<name>>]
ListNames(names) == [kind |-> "list", names |-> names]

\* list(filter(lambda e: e[0] in model_names, models)), then e[1] of each.
RECURSIVE filter_models(_, _)
filter_models(registry, model_names) ==
  IF registry = <<>> THEN <<>>
  ELSE LET e == registry[1]
           rest == filter_models(Tail(registry), model_names)
       IN IF e[1] \in ToSet(model_names) THEN <<e[2]>> \o rest ELSE rest

load_models(arg) ==
  LET model_names == IF arg.kind = "str" THEN <<arg.names[1]>> ELSE arg.names
      models_out == filter_models(models, model_names)
  IN IF Len(models_out) # Len(model_names)
       THEN [op |-> "load_models", model_names |-> model_names,
             outcome |-> "NotImplementedError", models_out |-> <<>>]
       ELSE [op |-> "load_models", model_names |-> model_names,
             outcome |-> "ok", models_out |-> models_out]

\* load_models(model_name)[0]
load_model(model_name) ==
  LET r == load_models(StrNames(model_name))
  IN IF r.outcome # "ok" THEN [r EXCEPT !.op = "load_model"]
     ELSE IF r.models_out = <<>>
       THEN [r EXCEPT !.op = "load_model", !.outcome = "IndexError"]
     ELSE [r EXCEPT !.op = "load_model", !.models_out = <<r.models_out[1]>>]

transformer_vars == <<rand_vars, col_vars, output_properties, last, ops>>

LoadModels(arg) ==
  /\ loaded' = load_models(arg)
  /\ UNCHANGED <<models, transformer_vars>>

LoadModel(model_name) ==
  /\ loaded' = load_model(model_name)
  /\ UNCHANGED <<models, transformer_vars>>

\* The registries, and the names and arguments asked for, under SpecModels.
Registries == { <<TORCHRLN>>, <<TORCHRLN, DEEPFM>>, <<TORCHRLN, DEEPFM, VIME>> }
Names == {"torchrln", "deepfm", "vime", "catboost"}
RECURSIVE Lists(_)
Lists(n) ==
  IF n = 0 THEN {<<>>}
  ELSE Lists(n - 1) \cup {Append(l, x) : l \in {y \in Lists(n - 1) : Len(y) = n - 1},
                                          x \in Names}
NamesArguments ==
  {StrNames(name) : name \in Names} \cup {ListNames(l) : l \in Lists(MaxNames)}

InitLoad ==
  /\ InitRandom
  /\ output_properties = [i \in Inst |-> BaseOutputProperties]
  /\ models \in Registries
  /\ loaded = NotLoaded

NextLoad ==
  \/ \E arg \in NamesArguments : LoadModels(arg)
  \/ \E model_name \in Names : LoadModel(model_name)

SpecLoad == InitLoad /\ [][NextLoad]_vars

\* ----------------------------------------------------------------- claims
StoredNp(i, m) == NpGetState(random_states[i][1][m])
StoredTorch(i, m) == TorchGetState(random_states_torch[i][1][m])
SwappedCall(l) == l.op \in Method /\ l.swapped

\* C1: a call of fit, transform or reverse_transform on an instance whose
\* random states are set leaves numpy's global state and torch's default
\* generator state as they were before the call, whether the wrapped method
\* returns or raises and however many draws it made.
GlobalsLeftAsFound ==
  [][SwappedCall(last') => (np_global' = np_global /\ torch_global' = torch_global)]_vars

\* A swapped call that raised after drawing from both generators.
RaisedAfterDraws ==
  /\ SwappedCall(last)
  /\ last.outcome = "Error"
  /\ last.np_end # last.np
  /\ last.torch_end # last.torch

\* C2: a call of a phase on an instance with random states set starts from
\* the numpy state at which the previous call of that phase on that instance
\* ended, or from the phase's seeded initial state after a reset, whatever
\* happened on numpy's global generator in between.
NumpyStreamContinues ==
  [][(SwappedCall(last') /\ stream_np[last'.inst][last'.op] # None)
       => last'.np = stream_np[last'.inst][last'.op][1]]_vars

\* A later call of a phase that started where the earlier one ended, with the
\* global numpy generator reseeded by ambient code.
ContinuedAfterReseed ==
  /\ SwappedCall(last)
  /\ last.np[2] > 0
  /\ last.np[1] = NpSeed(last.op)
  /\ InitialSeed(np_global) \in ReseedSeeds

\* C3 (as claimed): after a call of a phase on an instance with random states
\* set, the torch state stored for that phase is where the phase's torch
\* stream ended.
TorchStateRecordsStreamEnd ==
  SwappedCall(last) => StoredTorch(last.inst, last.op) = last.torch_end

\* C4 (as claimed): a call of one phase on one instance leaves the stored
\* numpy and torch states of every other phase and of every other instance
\* with the value they had before the call.
OtherStatesKeepValue ==
  [][last'.op \in Method =>
       \A j \in Inst, m \in Method :
         (<<j, m>> # <<last'.inst, last'.op>> /\ random_states[j] # None)
           => /\ random_states'[j] # None
              /\ StoredNp(j, m)' = StoredNp(j, m)
              /\ StoredTorch(j, m)' = StoredTorch(j, m)]_vars

\* C5: the class-level initial numpy states always stand at their seeds 21,
\* 80 and 130, and after reset_randomization on an instance with random
\* states set its three numpy states are those seeded states.
RestartFromSeeds ==
  /\ \A m \in Method : initial_states[m] = Seeded(NpSeed(m))
  /\ (last.op = "reset_randomization" /\ last.outcome = "ok")
       => \A m \in Method : StoredNp(last.inst, m) = Seeded(NpSeed(m))

\* A reset of one instance after phase calls, while another instance that
\* got its states from the same class-level objects has advanced its stream.
ResetAfterCalls ==
  /\ last.op = "reset_randomization"
  /\ last.outcome = "ok"
  /\ \E j \in Inst \ {last.inst}, m \in Method :
       random_states[j] # None /\ StoredNp(j, m)[2] > 0

\* C6 (as claimed): every instance holds, from construction on, a stored
\* random state for each of the three phases and for both generators.
EveryInstanceHoldsStates ==
  \A i \in Inst :
    /\ random_states[i] # None
    /\ random_states_torch[i] # None
    /\ DOMAIN random_states[i][1] = Method
    /\ DOMAIN random_states_torch[i][1] = Method

\* C10 (as claimed): set_random_state on any instance raises ValueError and
\* changes no stored state when method_name is not a phase; otherwise it
\* stores both given states for that phase and leaves the other phases'.
SetRandomStateContract ==
  [][last'.op = "set_random_state" =>
       IF last'.method \notin Method
         THEN /\ last'.outcome = "ValueError"
              /\ random_states' = random_states
              /\ random_states_torch' = random_states_torch
         ELSE /\ last'.outcome = "ok"
              /\ random_states'[last'.inst][1][last'.method] = NpObject(last'.np)
              /\ random_states_torch'[last'.inst][1][last'.method]
                   = TorchObject(last'.torch)
              /\ \A m \in Method \ {last'.method} :
                   /\ random_states'[last'.inst][1][m] = random_states[last'.inst][1][m]
                   /\ random_states_torch'[last'.inst][1][m]
                        = random_states_torch[last'.inst][1][m]]_vars

\* The names _get_output_to_property derives from a prefix: one per entry of
\* output_properties that has an sdtype.
DerivedNames(prefix, properties) ==
  LET typed == SelectSeq(properties, LAMBDA e : "sdtype" \in e.props)
  IN [x \in 1..Len(typed) |->
        IF typed[x].output_column = None THEN prefix
        ELSE prefix \o <<".">> \o typed[x].output_column[1]]

Hashes(k) == [x \in 1..k |-> "#"]

\* With k '#' after the join of cols, no derived name outside cols is in data.
Free(cols, data, properties, k) ==
  (ToSet(DerivedNames(Join(cols) \o Hashes(k), properties)) \ ToSet(cols)) \cap data = {}

FitReturned(l) == l.op = "fit" /\ l.outcome = "ok"

\* C7: after fit returns, no output column other than one equal to an input
\* column is a column of the data.
OutputColumnsNotInData ==
  FitReturned(last) =>
    (ToSet(output_columns[last.inst][1]) \ ToSet(columns[last.inst][1]))
      \cap last.data = {}

\* A fit that returned with a '#' appended to the prefix.
FitAvoidedCollision ==
  /\ FitReturned(last)
  /\ Len(column_prefix[last.inst][1]) > Len(Join(columns[last.inst][1]))

\* C8: _build_output_columns returns for every table, the prefix it leaves is
\* the '#'-join of the input columns followed by the smallest number of '#'
\* for which no derived output name outside the input columns is in the data,
\* and output_columns are the names derived with that prefix.
PrefixIsSmallestFree ==
  (last.op = "fit" /\ last.called_fit /\ last.outcome # "Error") =>
    LET i == last.inst
        cols == columns[i][1]
    IN /\ last.outcome = "ok"
       /\ \E k \in 0..Cardinality(last.data) :
            /\ column_prefix[i][1] = Join(cols) \o Hashes(k)
            /\ Free(cols, last.data, output_properties[i], k)
            /\ \A j \in 0..(k - 1) : ~Free(cols, last.data, output_properties[i], j)
       /\ output_columns[i][1] = DerivedNames(column_prefix[i][1], output_properties[i])

\* A fit that had to append two '#'.
FitAppendedTwice ==
  /\ FitReturned(last)
  /\ Len(column_prefix[last.inst][1]) = Len(Join(columns[last.inst][1])) + 2

\* C9: fit with a requested column that is not in the data raises KeyError
\* without calling _fit and leaves columns, column_prefix and output_columns
\* as they were.
MissingColumnChangesNothing ==
  [][(last'.op = "fit" /\ ToSet(last'.column.names) \ last'.data # {})
       => /\ last'.outcome = "KeyError"
          /\ ~last'.called_fit
          /\ columns' = columns
          /\ column_prefix' = column_prefix
          /\ output_columns' = output_columns]_vars

\* A KeyError of a transformer that an earlier fit had bound to columns.
KeyErrorAfterFit ==
  /\ last.op = "fit"
  /\ last.outcome = "KeyError"
  /\ columns[last.inst] # None
  /\ column_prefix[last.inst] # None

StartsWith(s, p) == Len(p) <= Len(s) /\ SubSeq(s, 1, Len(p)) = p

\* C11 (as claimed): in every reachable state, after fit calls that return
\* or raise, a column_prefix that is set starts with the '#'-join of the
\* current columns, and the output_columns are the names derived with it.
PrefixBelongsToColumns ==
  \A i \in Inst :
    column_prefix[i] # None =>
      /\ columns[i] # None
      /\ StartsWith(column_prefix[i][1], Join(columns[i][1]))
      /\ output_columns[i] # None
      /\ output_columns[i][1] = DerivedNames(column_prefix[i][1], output_properties[i])

Registered == {models[x][1] : x \in DOMAIN models}

\* C12 (as claimed): load_models raises NotImplementedError exactly when a
\* requested name is not registered; otherwise, also for a list that repeats
\* a registered name, it returns one class per requested name, each a class
\* registered under a requested name.
LoadModelsContract ==
  loaded.op = "load_models" =>
    /\ (loaded.outcome = "NotImplementedError")
         <=> (\E name \in ToSet(loaded.model_names) : name \notin Registered)
    /\ loaded.outcome = "ok" =>
         /\ Len(loaded.models_out) = Len(loaded.model_names)
         /\ \A c \in ToSet(loaded.models_out) :
              \E e \in ToSet(models) : e[2] = c /\ e[1] \in ToSet(loaded.model_names)

====
